---- MODULE Spec2Model ----
(***************************************************************************)
(* Model of the laibrary documentation pipeline:                           *)
(*   generate_documentation  (src/lib.rs)                                  *)
(*   build_public_api        (src/languages/rust/api.rs)                   *)
(*   construct_namespaces    (src/languages/rust/api/namespace_construction.rs) *)
(*   format_library_context  (src/formatting.rs)                           *)
(*   format_module           (src/languages/rust/formatting.rs)            *)
(* Strings are real strings: names and artifact text are built with \o, so *)
(* equality of two texts is equality byte for byte.                        *)
(***************************************************************************)
EXTENDS Integers, Sequences, FiniteSets, TLC

VARIABLES
    entry,              \* the public function that was called
    pc,                 \* position inside the running call
    env,                \* outcomes of the external collaborators for this run
    stages,             \* the stages that have executed so far, in order
    metadata,           \* PackageMetadata {name, version, documentation}
    crate_name,         \* crate_name argument of construct_namespaces
    raw_namespaces,     \* output of collect_symbols
    symbol_resolution,  \* SymbolResolution {symbols, doc_comments}
    resolve_hops,       \* longest re-export chain walked by resolve_symbols
    i, j,               \* loop positions of construct_namespaces
    namespace_map,      \* HashMap<String, Namespace> of construct_namespaces
    namespaces,         \* the Vec<Namespace> handed to the formatter
    k,                  \* loop position of format_library_context
    api_content,        \* String accumulated by format_library_context
    result              \* Result returned to the caller

vars == <<entry, pc, env, stages, metadata, crate_name, raw_namespaces,
          symbol_resolution, resolve_hops, i, j, namespace_map, namespaces,
          k, api_content, result>>

---------------------------------------------------------------------------
(* Bounds *)

MaxSymbols == 2        \* ResolvedSymbol entries handed to construct_namespaces
MaxModules == 2        \* module paths per ResolvedSymbol
MaxNamespaces == 2     \* namespaces handed directly to format_library_context
MaxDecls == 1          \* public item declarations in a collected module tree
MaxEdges == 2          \* re-export statements in a collected module tree

---------------------------------------------------------------------------
(* Universes the inputs are drawn from *)

STUB_CRATE_NAME == "test_crate"

ModulePaths == {"", "a", "a::b"}

ItemNames == {"f", "g"}

StubSymbols ==
    { [name |-> "first_symbol",  source_code |-> "pub fn first_symbol() {}"],
      [name |-> "second_symbol", source_code |-> "pub struct second_symbol;"] }

\* module path -> doc comment maps handed to construct_namespaces directly
StubDocComments ==
    { ("a" :> "Doc of a") @@ ("a::b" :> "Doc of a::b") }

\* the doc comments of the collected module tree: the root and a::b have one
CollectedDocComments ==
    ("" :> "This is a stub doc comment") @@ ("a::b" :> "Doc of a::b")

MetadataInputs ==
    { [name |-> STUB_CRATE_NAME, version |-> "0.1.0",
       documentation |-> "A test library."],
      [name |-> STUB_CRATE_NAME, version |-> "0.1.0",
       documentation |-> " \nA test library.\n" ] }

\* what the metadata loader hands to generate_documentation
LoadedMetadata ==
    { [name |-> STUB_CRATE_NAME, version |-> "0.1.0",
       documentation |-> "A test library.\n" ] }

Languages == {"rust", "unsupported"}

---------------------------------------------------------------------------
(* Generic helpers *)

Range(s) == { s[n] : n \in DOMAIN s }

SeqsUpTo(S, n) == UNION { [1..m -> S] : m \in 0..n }

\* non-empty sequences without repetition ("non-empty ordered set")
OrderedSets(S, n) ==
    { s \in SeqsUpTo(S, n) :
        /\ Len(s) > 0
        /\ \A a, b \in DOMAIN s : a # b => s[a] # s[b] }

Orderings(S) ==
    { s \in [1..Cardinality(S) -> S] :
        \A a, b \in DOMAIN s : a # b => s[a] # s[b] }

None == <<>>
Some(v) == <<v>>

Ok(v) == [ok |-> TRUE, value |-> v]
Err(e) == [ok |-> FALSE, error |-> e]
Pending == [ok |-> FALSE, error |-> "pending"]

---------------------------------------------------------------------------
(* Text helpers: what str::trim and a search for a pattern do *)

IsWhitespace(c) == c \in {" ", "\n", "\t", "\r"}

RECURSIVE TrimStart(_)
TrimStart(s) ==
    IF Len(s) > 0 /\ IsWhitespace(SubSeq(s, 1, 1))
    THEN TrimStart(SubSeq(s, 2, Len(s)))
    ELSE s

RECURSIVE TrimEnd(_)
TrimEnd(s) ==
    IF Len(s) > 0 /\ IsWhitespace(SubSeq(s, Len(s), Len(s)))
    THEN TrimEnd(SubSeq(s, 1, Len(s) - 1))
    ELSE s

Trim(s) == TrimEnd(TrimStart(s))

MatchesAt(text, pattern, at) ==
    /\ at + Len(pattern) - 1 <= Len(text)
    /\ SubSeq(text, at, at + Len(pattern) - 1) = pattern

MatchPositions(text, pattern) ==
    { at \in 1..Len(text) : MatchesAt(text, pattern, at) }

---------------------------------------------------------------------------
(* construct_namespaces *)

\* mutant: the root case is forgotten, the root becomes "crate::"
NamespaceName_AlwaysJoined(crate, module_path) ==
    crate \o "::" \o module_path

\* mutant: the module path is left out of the name
NamespaceName_Flat(crate, module_path) == crate

\* the namespace_name computed for one module path
NamespaceName(crate, module_path) ==
    IF module_path = "" THEN crate ELSE crate \o "::" \o module_path

\* mutant: the doc comment is looked up by the qualified name
NewNamespace_DocByName(namespace_name, module_path, doc_comments) ==
    [ name            |-> namespace_name,
      symbols         |-> <<>>,
      missing_symbols |-> <<>>,
      doc_comment     |-> IF namespace_name \in DOMAIN doc_comments
                          THEN Some(doc_comments[namespace_name])
                          ELSE None ]

\* the closure given to or_insert_with
NewNamespace(namespace_name, module_path, doc_comments) ==
    [ name            |-> namespace_name,
      symbols         |-> <<>>,
      missing_symbols |-> <<>>,
      doc_comment     |-> IF module_path \in DOMAIN doc_comments
                          THEN Some(doc_comments[module_path])
                          ELSE None ]

\* mutant: a symbol the namespace already holds is not pushed again
InsertSymbol_Dedup(map, doc_comments, crate, resolved_symbol, module_path) ==
    LET namespace_name == IF module_path = "" THEN crate
                          ELSE crate \o "::" \o module_path
        namespace == IF namespace_name \in DOMAIN map
                     THEN map[namespace_name]
                     ELSE [ name |-> namespace_name, symbols |-> <<>>,
                            missing_symbols |-> <<>>,
                            doc_comment |-> IF module_path \in DOMAIN doc_comments
                                            THEN Some(doc_comments[module_path])
                                            ELSE None ]
    IN  (namespace_name :>
            [namespace EXCEPT !.symbols =
                IF resolved_symbol.symbol \in Range(@) THEN @
                ELSE Append(@, resolved_symbol.symbol)])
        @@ map

\* mutant: insert instead of entry/or_insert_with, the last write wins
InsertSymbol_LastWriteWins(map, doc_comments, crate, resolved_symbol, module_path) ==
    LET namespace_name == IF module_path = "" THEN crate
                          ELSE crate \o "::" \o module_path
    IN  (namespace_name :>
            [ name |-> namespace_name,
              symbols |-> <<resolved_symbol.symbol>>,
              missing_symbols |-> <<>>,
              doc_comment |-> IF module_path \in DOMAIN doc_comments
                              THEN Some(doc_comments[module_path])
                              ELSE None ])
        @@ map

\* namespace_map.entry(..).or_insert_with(..) followed by symbols.push(..)
InsertSymbol(map, doc_comments, crate, resolved_symbol, module_path) ==
    LET namespace_name == NamespaceName(crate, module_path)
        namespace == IF namespace_name \in DOMAIN map
                     THEN map[namespace_name]
                     ELSE NewNamespace(namespace_name, module_path, doc_comments)
    IN  (namespace_name :>
            [namespace EXCEPT !.symbols = Append(@, resolved_symbol.symbol)])
        @@ map

\* namespace_map.into_values().collect(): a HashMap yields its values in an
\* order that its (per-map, randomly keyed) hasher decides
IntoValuesOrders(map) ==
    { [n \in 1..Cardinality(DOMAIN map) |-> map[order[n]]] :
        order \in Orderings(DOMAIN map) }

\* the whole function, folded over the (symbol, module path) pairs in order
RECURSIVE ConstructNamespaceMap(_, _, _, _, _)
ConstructNamespaceMap(map, resolution, crate, si, mi) ==
    IF si > Len(resolution.symbols) THEN map
    ELSE IF mi > Len(resolution.symbols[si].modules)
         THEN ConstructNamespaceMap(map, resolution, crate, si + 1, 1)
         ELSE ConstructNamespaceMap(
                  InsertSymbol(map, resolution.doc_comments, crate,
                               resolution.symbols[si],
                               resolution.symbols[si].modules[mi]),
                  resolution, crate, si, mi + 1)

ResolvedSymbolInputs ==
    { [symbol |-> s, modules |-> m] :
        s \in StubSymbols, m \in OrderedSets(ModulePaths, MaxModules) }

SymbolResolutionInputs ==
    { [symbols |-> l, doc_comments |-> d] :
        l \in SeqsUpTo(ResolvedSymbolInputs, MaxSymbols),
        d \in StubDocComments }

NoEnv == [ language |-> "rust", metadata_ok |-> TRUE, listing_ok |-> TRUE, parser_ok |-> TRUE,
           entry_file |-> "present", unformattable |-> {} ]

NoMetadata == [name |-> "", version |-> "", documentation |-> ""]
NoRaw == [decls |-> {}, reexports |-> {}, docs |-> <<>>]
NoResolution == [symbols |-> <<>>, doc_comments |-> <<>>]

\* a caller (the unit tests, build_public_api) calls construct_namespaces
CallConstructNamespaces ==
    /\ pc = "idle"
    /\ \E resolution \in SymbolResolutionInputs :
          symbol_resolution' = resolution
    /\ entry' = "construct_namespaces"
    /\ crate_name' = STUB_CRATE_NAME
    /\ pc' = "construct"
    /\ i' = 1
    /\ j' = 1
    /\ namespace_map' = <<>>
    /\ UNCHANGED <<env, stages, metadata, raw_namespaces, resolve_hops,
                   namespaces, k, api_content, result>>

\* mutant: the symbol goes to its first module path only
ConstructStep_FirstModuleOnly ==
    /\ pc = "construct"
    /\ i <= Len(symbol_resolution.symbols)
    /\ LET resolved_symbol == symbol_resolution.symbols[i]
       IN  /\ namespace_map' =
                 IF j = 1
                 THEN InsertSymbol(namespace_map, symbol_resolution.doc_comments,
                                   crate_name, resolved_symbol,
                                   resolved_symbol.modules[1])
                 ELSE namespace_map
           /\ IF j < Len(resolved_symbol.modules)
              THEN /\ j' = j + 1
                   /\ i' = i
              ELSE /\ j' = 1
                   /\ i' = i + 1
    /\ UNCHANGED <<entry, pc, env, stages, metadata, crate_name,
                   raw_namespaces, symbol_resolution, resolve_hops,
                   namespaces, k, api_content, result>>

\* one pass of the inner for_each: one (resolved symbol, module path) pair
ConstructStep ==
    /\ pc = "construct"
    /\ i <= Len(symbol_resolution.symbols)
    /\ LET resolved_symbol == symbol_resolution.symbols[i]
       IN  /\ namespace_map' =
                 InsertSymbol(namespace_map, symbol_resolution.doc_comments,
                              crate_name, resolved_symbol,
                              resolved_symbol.modules[j])
           /\ IF j < Len(resolved_symbol.modules)
              THEN /\ j' = j + 1
                   /\ i' = i
              ELSE /\ j' = 1
                   /\ i' = i + 1
    /\ UNCHANGED <<entry, pc, env, stages, metadata, crate_name,
                   raw_namespaces, symbol_resolution, resolve_hops,
                   namespaces, k, api_content, result>>

\* namespace_map.into_values().collect() and the return; inside
\* generate_documentation the list goes on to format_library_context
IntoValues ==
    /\ pc = "construct"
    /\ i > Len(symbol_resolution.symbols)
    /\ \E values \in IntoValuesOrders(namespace_map) :
          /\ namespaces' = values
          /\ IF entry = "generate_documentation"
             THEN /\ pc' = "format"
                  /\ stages' = Append(stages, "format_library_context")
                  /\ k' = 1
                  /\ api_content' = ""
                  /\ result' = result
             ELSE /\ pc' = "done"
                  /\ result' = Ok(values)
                  /\ UNCHANGED <<stages, k, api_content>>
    /\ UNCHANGED <<entry, env, metadata, crate_name, raw_namespaces,
                   symbol_resolution, resolve_hops, i, j, namespace_map>>

---------------------------------------------------------------------------
(* format_module, format_library_context *)

RECURSIVE Join(_, _)
Join(parts, separator) ==
    IF Len(parts) = 0 THEN ""
    ELSE IF Len(parts) = 1 THEN parts[1]
    ELSE parts[1] \o separator \o Join(Tail(parts), separator)

\* languages/rust/formatting.rs: the symbols' source text joined by a blank line
format_module(module) ==
    Join([n \in DOMAIN module.symbols |-> module.symbols[n].source_code], "\n\n")

\* analyser.format_namespace(namespace): the pluggable formatter, which fails
\* on the namespaces the run's analyser cannot format
format_namespace(namespace, unformattable) ==
    IF namespace.name \in unformattable
    THEN Err("Formatting: " \o namespace.name)
    ELSE Ok(format_module(namespace))

NamespaceOpenTag == "        <namespace name=\""
NamespaceCloseTag == "        </namespace>\n"

\* the format! pushed onto api_content for one namespace
NamespaceElement(name, body) ==
    NamespaceOpenTag \o name \o "\">\n" \o body \o "\n" \o NamespaceCloseTag

\* the final format! of format_library_context
LibraryElement(meta, content) ==
    "<library name=\"" \o meta.name \o "\" version=\"" \o meta.version
    \o "\">\n    <documentation>\n" \o Trim(meta.documentation)
    \o "\n    </documentation>\n    <api>\n" \o content
    \o "\n    </api>\n</library>"

NamespaceInputs ==
    { [name |-> n, symbols |-> s, missing_symbols |-> <<>>, doc_comment |-> None] :
        n \in {"test", "empty"},
        s \in { <<>> } \cup { <<a>> : a \in StubSymbols } }

\* a caller (the unit tests) calls format_library_context
CallFormatLibraryContext ==
    /\ pc = "idle"
    /\ \E meta \in MetadataInputs,
          list \in SeqsUpTo(NamespaceInputs, MaxNamespaces),
          bad \in {{}, {"empty"}} :
          /\ metadata' = meta
          /\ namespaces' = list
          /\ env' = [env EXCEPT !.unformattable = bad]
    /\ entry' = "format_library_context"
    /\ pc' = "format"
    /\ k' = 1
    /\ api_content' = ""
    /\ UNCHANGED <<stages, crate_name, raw_namespaces, symbol_resolution,
                   resolve_hops, i, j, namespace_map, result>>

\* mutant: a namespace the formatter fails on is skipped
FormatNamespaceStep_SkipFailed ==
    /\ pc = "format"
    /\ k <= Len(namespaces)
    /\ LET namespace == namespaces[k]
           body == format_namespace(namespace, env.unformattable)
       IN  api_content' =
               IF body.ok
               THEN api_content \o NamespaceElement(namespace.name, body.value)
               ELSE api_content
    /\ k' = k + 1
    /\ UNCHANGED <<entry, pc, env, stages, metadata, crate_name, raw_namespaces,
                   symbol_resolution, resolve_hops, i, j, namespace_map,
                   namespaces, result>>

\* mutant: a namespace whose name was rendered already is not rendered again
FormatNamespaceStep_SkipRepeated ==
    /\ pc = "format"
    /\ k <= Len(namespaces)
    /\ LET namespace == namespaces[k]
           body == format_namespace(namespace, env.unformattable)
           repeated == \E m \in 1..(k - 1) : namespaces[m].name = namespace.name
       IN  IF body.ok
           THEN /\ api_content' =
                      IF repeated THEN api_content
                      ELSE api_content \o NamespaceElement(namespace.name, body.value)
                /\ k' = k + 1
                /\ UNCHANGED <<pc, result>>
           ELSE /\ result' = Err(body.error)
                /\ pc' = "done"
                /\ UNCHANGED <<k, api_content>>
    /\ UNCHANGED <<entry, env, stages, metadata, crate_name, raw_namespaces,
                   symbol_resolution, resolve_hops, i, j, namespace_map,
                   namespaces>>

\* one pass of the for loop; the ? returns the formatter's error
FormatNamespaceStep ==
    /\ pc = "format"
    /\ k <= Len(namespaces)
    /\ LET namespace == namespaces[k]
           body == format_namespace(namespace, env.unformattable)
       IN  IF body.ok
           THEN /\ api_content' =
                      api_content \o NamespaceElement(namespace.name, body.value)
                /\ k' = k + 1
                /\ UNCHANGED <<pc, result>>
           ELSE /\ result' = Err(body.error)
                /\ pc' = "done"
                /\ UNCHANGED <<k, api_content>>
    /\ UNCHANGED <<entry, env, stages, metadata, crate_name, raw_namespaces,
                   symbol_resolution, resolve_hops, i, j, namespace_map,
                   namespaces>>

\* the loop is over: Ok(format!(..))
FormatFinish ==
    /\ pc = "format"
    /\ k > Len(namespaces)
    /\ result' = Ok(LibraryElement(metadata, api_content))
    /\ pc' = "done"
    /\ UNCHANGED <<entry, env, stages, metadata, crate_name, raw_namespaces,
                   symbol_resolution, resolve_hops, i, j, namespace_map,
                   namespaces, k, api_content>>

---------------------------------------------------------------------------
(* collect_symbols and resolve_symbols: what the collector hands over and   *)
(* how re-export edges are resolved (section 4.1, 4.2 of the design)        *)

DeclSource(m, n) == "pub fn " \o n \o "() {} // in " \o NamespaceName("crate", m)

DeclUniverse ==
    { [module |-> m, name |-> n, source_code |-> DeclSource(m, n)] :
        m \in ModulePaths, n \in ItemNames }

\* pub use <imported_module>::<imported_name> as <local_name>; in <module>
ReexportUniverse ==
    { [module |-> m, imported_module |-> t, imported_name |-> n, local_name |-> l] :
        m \in ModulePaths, t \in ModulePaths, n \in ItemNames, l \in ItemNames }

SetsUpTo(S, n) == { Range(s) : s \in SeqsUpTo(S, n) }

\* one name means one thing in one module
UniqueKeys(decls, reexports) ==
    /\ \A e1, e2 \in reexports :
          (e1.module = e2.module /\ e1.local_name = e2.local_name) => e1 = e2
    /\ \A d \in decls, e \in reexports :
          ~(d.module = e.module /\ d.name = e.local_name)

RawInputs ==
    { [decls |-> D, reexports |-> E, docs |-> CollectedDocComments] :
        D \in SetsUpTo(DeclUniverse, MaxDecls),
        E \in { F \in SetsUpTo(ReexportUniverse, MaxEdges) :
                  \A e \in F : e.module # e.imported_module } }

CollectedInputs == { raw \in RawInputs : UniqueKeys(raw.decls, raw.reexports) }

RECURSIVE SetToSeq(_)
SetToSeq(S) ==
    IF S = {} THEN <<>>
    ELSE LET x == CHOOSE y \in S : TRUE IN <<x>> \o SetToSeq(S \ {x})

DeclAt(raw, m, n) == { d \in raw.decls : d.module = m /\ d.name = n }
EdgeAt(raw, m, n) == { e \in raw.reexports : e.module = m /\ e.local_name = n }

\* follow (module, name) through re-exports until a declaration, with the
\* set of keys already visited
RECURSIVE ResolveTarget(_, _, _, _)
ResolveTarget(raw, m, n, visited) ==
    IF <<m, n>> \in visited
    THEN [status |-> "cycle", hops |-> Cardinality(visited)]
    ELSE IF DeclAt(raw, m, n) # {}
    THEN [status |-> "found", hops |-> Cardinality(visited),
          decl |-> CHOOSE d \in DeclAt(raw, m, n) : TRUE]
    ELSE IF EdgeAt(raw, m, n) # {}
    THEN LET e == CHOOSE x \in EdgeAt(raw, m, n) : TRUE
         IN  ResolveTarget(raw, e.imported_module, e.imported_name,
                           visited \cup {<<m, n>>})
    ELSE [status |-> "missing", hops |-> Cardinality(visited)]

ResolveEdge(raw, e) ==
    ResolveTarget(raw, e.imported_module, e.imported_name,
                  {<<e.module, e.local_name>>})

\* step 2: every declared item is visible in its own module
SeedSymbols(decl_list) ==
    [n \in DOMAIN decl_list |->
        [symbol  |-> [name |-> decl_list[n].name,
                      source_code |-> decl_list[n].source_code],
         modules |-> <<decl_list[n].module>>]]

\* step 3 for one edge whose target is the declaration d
AttachEdge(symbols, decl_list, e, d) ==
    IF e.local_name = d.name
    THEN LET at == CHOOSE n \in DOMAIN decl_list : decl_list[n] = d
         IN  [symbols EXCEPT ![at].modules = Append(@, e.module)]
    ELSE Append(symbols,
                [symbol  |-> [name |-> e.local_name, source_code |-> d.source_code],
                 modules |-> <<e.module>>])

RECURSIVE ResolveEdges(_, _, _, _)
ResolveEdges(raw, decl_list, edge_list, symbols) ==
    IF Len(edge_list) = 0 THEN Ok(symbols)
    ELSE LET e == Head(edge_list)
             target == ResolveEdge(raw, e)
         IN  IF target.status = "cycle"
             THEN Err("UnresolvedReExportCycle")
             ELSE ResolveEdges(raw, decl_list, Tail(edge_list),
                               IF target.status = "found"
                               THEN AttachEdge(symbols, decl_list, e, target.decl)
                               ELSE symbols)

resolve_symbols(raw) ==
    LET decl_list == SetToSeq(raw.decls)
        edge_list == SetToSeq(raw.reexports)
        symbols   == ResolveEdges(raw, decl_list, edge_list, SeedSymbols(decl_list))
    IN  IF symbols.ok
        THEN Ok([symbols |-> symbols.value, doc_comments |-> raw.docs])
        ELSE symbols

MaxHops(raw) ==
    LET hops == { ResolveEdge(raw, e).hops : e \in raw.reexports }
    IN  IF hops = {} THEN 0 ELSE CHOOSE h \in hops : \A o \in hops : o <= h

---------------------------------------------------------------------------
(* generate_documentation and build_public_api *)

SupportedLanguages == {"rust"}

\* get_analyser: the registry lookup
get_analyser(language) ==
    IF language \in SupportedLanguages
    THEN Ok(language)
    ELSE Err("UnsupportedLanguage")

EnvInputs ==
    { [ language |-> l, metadata_ok |-> m, listing_ok |-> f, parser_ok |-> p,
        entry_file |-> e, unformattable |-> u ] :
        l \in Languages, m \in BOOLEAN, f \in BOOLEAN, p \in BOOLEAN,
        e \in {"present", "missing", "unparsable"},
        u \in { {}, {NamespaceName(STUB_CRATE_NAME, "a")} } }

\* the stages that read the file system
FileIOStages == {"get_package_metadata", "get_source_file_paths", "collect_symbols"}

PipelineStages ==
    << "get_analyser", "get_package_metadata", "get_source_file_paths",
       "get_parser", "collect_symbols", "resolve_symbols",
       "construct_namespaces", "format_library_context" >>

\* generate_documentation(language, path), up to get_analyser(language)?
GenerateDocumentation ==
    /\ pc = "idle"
    /\ \E e \in EnvInputs :
          /\ env' = e
          /\ LET analyser == get_analyser(e.language)
             IN  IF analyser.ok
                 THEN /\ pc' = "get_package_metadata"
                      /\ result' = result
                 ELSE /\ pc' = "done"
                      /\ result' = analyser
    /\ entry' = "generate_documentation"
    /\ stages' = Append(stages, "get_analyser")
    /\ UNCHANGED <<metadata, crate_name, raw_namespaces, symbol_resolution,
                   resolve_hops, i, j, namespace_map, namespaces, k,
                   api_content>>

\* analyser.get_package_metadata(path)?
GetPackageMetadata ==
    /\ pc = "get_package_metadata"
    /\ stages' = Append(stages, "get_package_metadata")
    /\ IF env.metadata_ok
       THEN /\ \E meta \in LoadedMetadata : metadata' = meta
            /\ pc' = "get_source_file_paths"
            /\ result' = result
       ELSE /\ result' = Err("Metadata")
            /\ pc' = "done"
            /\ metadata' = metadata
    /\ UNCHANGED <<entry, env, crate_name, raw_namespaces, symbol_resolution,
                   resolve_hops, i, j, namespace_map, namespaces, k,
                   api_content>>

\* get_source_file_paths(..)?
GetSourceFilePaths ==
    /\ pc = "get_source_file_paths"
    /\ stages' = Append(stages, "get_source_file_paths")
    /\ IF env.listing_ok
       THEN /\ pc' = "get_parser"
            /\ result' = result
       ELSE /\ result' = Err("Listing")
            /\ pc' = "done"
    /\ UNCHANGED <<entry, env, metadata, crate_name, raw_namespaces,
                   symbol_resolution, resolve_hops, i, j, namespace_map,
                   namespaces, k, api_content>>

\* get_parser(..)?
GetParser ==
    /\ pc = "get_parser"
    /\ stages' = Append(stages, "get_parser")
    /\ IF env.parser_ok
       THEN /\ pc' = "collect_symbols"
            /\ result' = result
       ELSE /\ result' = Err("ParserSetup")
            /\ pc' = "done"
    /\ UNCHANGED <<entry, env, metadata, crate_name, raw_namespaces,
                   symbol_resolution, resolve_hops, i, j, namespace_map,
                   namespaces, k, api_content>>

\* extract_public_api -> build_public_api: collect_symbols(entry_point, parser)?
CollectSymbols ==
    /\ pc = "collect_symbols"
    /\ stages' = Append(stages, "collect_symbols")
    /\ IF env.entry_file = "present"
       THEN /\ \E raw \in CollectedInputs : raw_namespaces' = raw
            /\ pc' = "resolve_symbols"
            /\ result' = result
       ELSE /\ result' = Err("Parse")
            /\ pc' = "done"
            /\ raw_namespaces' = raw_namespaces
    /\ UNCHANGED <<entry, env, metadata, crate_name, symbol_resolution,
                   resolve_hops, i, j, namespace_map, namespaces, k,
                   api_content>>

\* mutant: unwrap_or_default instead of ?, a failed resolution is taken as empty
ResolveSymbols_IgnoreError ==
    /\ pc = "resolve_symbols"
    /\ resolve_hops' = MaxHops(raw_namespaces)
    /\ LET resolution == resolve_symbols(raw_namespaces)
       IN  symbol_resolution' =
               IF resolution.ok THEN resolution.value
               ELSE [symbols |-> <<>>, doc_comments |-> raw_namespaces.docs]
    /\ stages' = stages \o <<"resolve_symbols", "construct_namespaces">>
    /\ crate_name' = metadata.name
    /\ pc' = "construct"
    /\ i' = 1
    /\ j' = 1
    /\ namespace_map' = <<>>
    /\ UNCHANGED <<entry, env, metadata, raw_namespaces, namespaces, k,
                   api_content, result>>

\* build_public_api: resolve_symbols(&raw_namespaces)? and the call of
\* construct_namespaces(resolution, crate_name)
ResolveSymbols ==
    /\ pc = "resolve_symbols"
    /\ resolve_hops' = MaxHops(raw_namespaces)
    /\ LET resolution == resolve_symbols(raw_namespaces)
       IN  IF resolution.ok
           THEN /\ symbol_resolution' = resolution.value
                /\ stages' = stages \o <<"resolve_symbols", "construct_namespaces">>
                /\ crate_name' = metadata.name
                /\ pc' = "construct"
                /\ i' = 1
                /\ j' = 1
                /\ namespace_map' = <<>>
                /\ result' = result
           ELSE /\ result' = resolution
                /\ stages' = Append(stages, "resolve_symbols")
                /\ pc' = "done"
                /\ UNCHANGED <<symbol_resolution, crate_name, i, j, namespace_map>>
    /\ UNCHANGED <<entry, env, metadata, raw_namespaces, namespaces, k,
                   api_content>>

---------------------------------------------------------------------------
(* Specifications *)

Init ==
    /\ entry = "none"
    /\ pc = "idle"
    /\ env = NoEnv
    /\ stages = <<>>
    /\ metadata = NoMetadata
    /\ crate_name = ""
    /\ raw_namespaces = NoRaw
    /\ symbol_resolution = NoResolution
    /\ resolve_hops = 0
    /\ i = 1
    /\ j = 1
    /\ namespace_map = <<>>
    /\ namespaces = <<>>
    /\ k = 1
    /\ api_content = ""
    /\ result = Pending

Next ==
    \/ GenerateDocumentation
    \/ GetPackageMetadata
    \/ GetSourceFilePaths
    \/ GetParser
    \/ CollectSymbols
    \/ ResolveSymbols
    \/ CallConstructNamespaces
    \/ ConstructStep
    \/ IntoValues
    \/ CallFormatLibraryContext
    \/ FormatNamespaceStep
    \/ FormatFinish

Spec == Init /\ [][Next]_vars

---------------------------------------------------------------------------
(* Vocabulary of the properties *)

\* construct_namespaces has returned its list
ConstructReturned ==
    \/ entry = "construct_namespaces" /\ pc = "done"
    \/ /\ entry = "generate_documentation"
       /\ pc \in {"format", "done"}
       /\ "format_library_context" \in Range(stages)

\* the (resolved symbol, module path) positions of the input
InputPairs ==
    UNION { { <<n, m>> : m \in DOMAIN symbol_resolution.symbols[n].modules } :
              n \in DOMAIN symbol_resolution.symbols }

PairSymbol(pair) == symbol_resolution.symbols[pair[1]].symbol
PairPath(pair) == symbol_resolution.symbols[pair[1]].modules[pair[2]]

UsedPaths == { PairPath(pair) : pair \in InputPairs }

\* the expected name, written out independently of the model's NamespaceName
QualifiedName(path) ==
    IF path = "" THEN "test_crate"
    ELSE IF path = "a" THEN "test_crate::a"
    ELSE "test_crate::a::b"

Occurrences(list, x) == Cardinality({ n \in DOMAIN list : list[n] = x })

RECURSIVE SumLen(_)
SumLen(lists) ==
    IF Len(lists) = 0 THEN 0 ELSE Len(Head(lists)) + SumLen(Tail(lists))

NamespacesNamed(name) == { n \in DOMAIN namespaces : namespaces[n].name = name }

\* C3: construct_namespaces places every resolved symbol in the namespace of
\* each of its module paths (crate_name for the empty path, crate_name::path
\* otherwise), equal by (name, source_code); every symbol instance of the
\* output comes from exactly one (resolved symbol, module path) pair, so the
\* output holds as many instances as there are pairs: nothing is deduplicated,
\* dropped or renamed.
C3_SymbolsPlacedExactly ==
    ConstructReturned =>
        /\ \A pair \in InputPairs :
              \E n \in NamespacesNamed(QualifiedName(PairPath(pair))) :
                  \E at \in DOMAIN namespaces[n].symbols :
                      /\ namespaces[n].symbols[at].name = PairSymbol(pair).name
                      /\ namespaces[n].symbols[at].source_code
                            = PairSymbol(pair).source_code
        /\ \A n \in DOMAIN namespaces :
              \A x \in Range(namespaces[n].symbols) :
                  Occurrences(namespaces[n].symbols, x) =
                      Cardinality({ pair \in InputPairs :
                          /\ PairSymbol(pair) = x
                          /\ QualifiedName(PairPath(pair)) = namespaces[n].name })
        /\ SumLen([n \in DOMAIN namespaces |-> namespaces[n].symbols])
              = Cardinality(InputPairs)

\* the same symbol listed twice for the root, once more for a nested module
C3_Witness ==
    /\ entry = "construct_namespaces"
    /\ pc = "done"
    /\ Len(symbol_resolution.symbols) = 2
    /\ symbol_resolution.symbols[1] = symbol_resolution.symbols[2]
    /\ symbol_resolution.symbols[1].modules = <<"", "a::b">>
    /\ \E n \in DOMAIN namespaces :
          /\ namespaces[n].name = "test_crate"
          /\ Len(namespaces[n].symbols) = 2

\* C4: the returned list holds exactly one namespace per distinct module path
\* that occurs in some ResolvedSymbol.modules and none for any other path:
\* names are unique, every namespace holds a symbol, an empty resolution gives
\* an empty list and a module without public symbols never appears, with or
\* without a doc comment.
C4_OneNamespacePerUsedPath ==
    ConstructReturned =>
        /\ \A a, b \in DOMAIN namespaces :
              namespaces[a].name = namespaces[b].name => a = b
        /\ { namespaces[n].name : n \in DOMAIN namespaces }
              = { QualifiedName(path) : path \in UsedPaths }
        /\ Len(namespaces) = Cardinality(UsedPaths)
        /\ \A n \in DOMAIN namespaces : Len(namespaces[n].symbols) >= 1
        /\ (symbol_resolution.symbols = <<>> => namespaces = <<>>)

\* two module paths in use, and a documented module that has no symbol
C4_Witness ==
    /\ entry = "construct_namespaces"
    /\ pc = "done"
    /\ Len(namespaces) = 2
    /\ UsedPaths = {"", "a"}
    /\ "a::b" \in DOMAIN symbol_resolution.doc_comments

DocCommentOf(path) ==
    IF path \in DOMAIN symbol_resolution.doc_comments
    THEN <<symbol_resolution.doc_comments[path]>>
    ELSE <<>>

C10_DocCommentAttached ==
    ConstructReturned =>
        /\ \A n \in DOMAIN namespaces :
              \E path \in UsedPaths :
                  /\ QualifiedName(path) = namespaces[n].name
                  /\ namespaces[n].doc_comment = DocCommentOf(path)
        /\ \A path \in DOMAIN symbol_resolution.doc_comments :
              path \notin UsedPaths => NamespacesNamed(QualifiedName(path)) = {}

C10_DocCommentFixed ==
    \A name \in DOMAIN namespace_map :
        /\ name \in DOMAIN namespace_map'
        /\ namespace_map'[name].doc_comment = namespace_map[name].doc_comment

\* C10: a namespace built for module path p carries the doc comment the
\* resolution's map holds for p, and none when the map has no entry for p; the
\* value is set when the namespace is created and later pushes leave it alone;
\* a map entry for a path that no resolved symbol lists produces no namespace.
C10_DocComment == [](C10_DocCommentAttached) /\ [][C10_DocCommentFixed]_vars

\* a documented namespace that received a second symbol after its creation,
\* next to an undocumented one
C10_Witness ==
    /\ ConstructReturned
    /\ \E n, m \in DOMAIN namespaces :
          /\ namespaces[n].doc_comment = <<"Doc of a">>
          /\ Len(namespaces[n].symbols) = 2
          /\ namespaces[m].doc_comment = <<>>


AsSets(list) ==
    { [name |-> list[n].name, symbols |-> Range(list[n].symbols)] :
        n \in DOMAIN list }

MapAsSets(map) ==
    { [name |-> map[x].name, symbols |-> Range(map[x].symbols)] :
        x \in DOMAIN map }

Permuted(resolution, order) ==
    [resolution EXCEPT !.symbols =
        [n \in DOMAIN order |-> resolution.symbols[order[n]]]]

FormatReturnedOk ==
    /\ entry \in {"format_library_context", "generate_documentation"}
    /\ pc = "done"
    /\ result.ok

\* the position of the n-th match, counted from the start of the text
NthMatch(positions, n) ==
    CHOOSE at \in positions : Cardinality({ q \in positions : q <= at }) = n

\* C7: the artifact holds one <namespace name=".."> element per input
\* namespace, in the order of the input list, duplicates included; with no
\* namespace it holds no <namespace element, and the <library> element with
\* the metadata name and version and the <documentation> block with the
\* trimmed root documentation are there in every case.
C7_OneElementPerNamespaceInOrder ==
    FormatReturnedOk =>
        LET text == result.value
            opens == MatchPositions(text, "<namespace")
        IN  /\ Cardinality(opens) = Len(namespaces)
            /\ \A n \in DOMAIN namespaces :
                  MatchesAt(text,
                            "<namespace name=\"" \o namespaces[n].name \o "\">\n",
                            NthMatch(opens, n))
            /\ Cardinality(MatchPositions(text, "</namespace>")) = Len(namespaces)
            /\ MatchesAt(text,
                         "<library name=\"" \o metadata.name \o "\" version=\""
                             \o metadata.version \o "\">\n    <documentation>\n"
                             \o "A test library.\n    </documentation>\n    <api>\n",
                         1)
            /\ MatchesAt(text, "\n    </api>\n</library>", Len(text) - 21)

\* two namespaces of the same name, rendered twice
C7_Witness ==
    /\ FormatReturnedOk
    /\ entry = "format_library_context"
    /\ Len(namespaces) = 2
    /\ namespaces[1].name = namespaces[2].name
    /\ namespaces[1].symbols # namespaces[2].symbols
    /\ metadata.documentation # "A test library."


RECURSIVE RenderAll(_)
RenderAll(list) ==
    IF Len(list) = 0 THEN ""
    ELSE NamespaceElement(Head(list).name, format_module(Head(list)))
         \o RenderAll(Tail(list))

\* the artifact of one run over a module tree: the run in which the HashMap
\* yields the namespaces in the order SetToSeq lists their names
ArtifactOf(raw, meta) ==
    LET map == ConstructNamespaceMap(<<>>, resolve_symbols(raw).value,
                                     meta.name, 1, 1)
        names == SetToSeq(DOMAIN map)
    IN  LibraryElement(meta, RenderAll([n \in DOMAIN names |-> map[names[n]]]))

\* C8: every run of generate_documentation over one module tree ends with the
\* same artifact text, byte for byte, whatever order the namespaces were
\* created and listed in.
C8_ByteIdenticalArtifact ==
    (entry = "generate_documentation" /\ pc = "done" /\ result.ok) =>
        result.value = ArtifactOf(raw_namespaces, metadata)

\* does the chain that starts at (m, n) go on for more than fuel re-exports
\* without meeting a declaration
RECURSIVE Loops(_, _, _, _)
Loops(raw, m, n, fuel) ==
    /\ \A d \in raw.decls : ~(d.module = m /\ d.name = n)
    /\ \E e \in raw.reexports :
          /\ e.module = m
          /\ e.local_name = n
          /\ (fuel = 0 \/ Loops(raw, e.imported_module, e.imported_name, fuel - 1))

\* a chain longer than the number of re-exports has come back on itself
HasCycle(raw) ==
    \E e \in raw.reexports :
        Loops(raw, e.module, e.local_name, Cardinality(raw.reexports))

StageFails(stage) ==
    CASE stage = "get_analyser"           -> env.language # "rust"
      [] stage = "get_package_metadata"   -> ~env.metadata_ok
      [] stage = "get_source_file_paths"  -> ~env.listing_ok
      [] stage = "get_parser"             -> ~env.parser_ok
      [] stage = "collect_symbols"        -> env.entry_file # "present"
      [] stage = "resolve_symbols"        -> HasCycle(raw_namespaces)
      [] stage = "construct_namespaces"   -> FALSE
      [] stage = "format_library_context" ->
            \E n \in DOMAIN namespaces : namespaces[n].name \in env.unformattable

FirstUnformattable ==
    CHOOSE n \in DOMAIN namespaces :
        /\ namespaces[n].name \in env.unformattable
        /\ \A m \in 1..(n - 1) : namespaces[m].name \notin env.unformattable

StageError(stage) ==
    CASE stage = "get_analyser"           -> "UnsupportedLanguage"
      [] stage = "get_package_metadata"   -> "Metadata"
      [] stage = "get_source_file_paths"  -> "Listing"
      [] stage = "get_parser"             -> "ParserSetup"
      [] stage = "collect_symbols"        -> "Parse"
      [] stage = "resolve_symbols"        -> "UnresolvedReExportCycle"
      [] stage = "construct_namespaces"   -> "none"
      [] stage = "format_library_context" ->
            "Formatting: " \o namespaces[FirstUnformattable].name

\* C5: generate_documentation runs its stages in order and the first stage
\* that fails ends the run with that stage's failure, no later stage having
\* run; an unsupported language fails before any file is read, a missing or
\* unparsable entry file gives a Parse failure, a failing namespace formatter
\* gives that namespace's error; the artifact text is returned only when every
\* stage succeeded, and then it is complete.
C5_FailFastAllOrNothing ==
    entry = "generate_documentation" =>
        /\ \E n \in 0..Len(PipelineStages) : stages = SubSeq(PipelineStages, 1, n)
        /\ pc # "done" => result = Pending
        /\ pc = "done" => ~ENABLED Next
        /\ (pc = "done" /\ ~result.ok) =>
              /\ StageFails(stages[Len(stages)])
              /\ \A m \in 1..(Len(stages) - 1) : ~StageFails(stages[m])
              /\ result.error = StageError(stages[Len(stages)])
        /\ (pc = "done" /\ result.ok) =>
              /\ stages = PipelineStages
              /\ \A m \in DOMAIN stages : ~StageFails(stages[m])
              /\ MatchesAt(result.value, "<library name=\"", 1)
              /\ MatchesAt(result.value, "</library>", Len(result.value) - 9)
              /\ Cardinality(MatchPositions(result.value, "</namespace>"))
                    = Len(namespaces)
        /\ (pc = "done" /\ env.language = "unsupported") =>
              /\ result = [ok |-> FALSE, error |-> "UnsupportedLanguage"]
              /\ Range(stages) \cap FileIOStages = {}
        /\ (pc = "done" /\ stages[Len(stages)] = "collect_symbols") =>
              /\ env.entry_file \in {"missing", "unparsable"}
              /\ result = [ok |-> FALSE, error |-> "Parse"]

\* the formatter failed on the second namespace: the first one had been
\* rendered and the run still returned the failure alone
C5_Witness ==
    /\ entry = "generate_documentation"
    /\ pc = "done"
    /\ result = [ok |-> FALSE, error |-> "Formatting: test_crate::a"]
    /\ Len(namespaces) = 2
    /\ api_content # ""


\* does the chain of re-exports that starts at (m, n) end at declaration d
RECURSIVE GroundsAt(_, _, _, _, _)
GroundsAt(raw, m, n, d, fuel) ==
    \/ d.module = m /\ d.name = n
    \/ /\ fuel > 0
       /\ \E e \in raw.reexports :
             /\ e.module = m
             /\ e.local_name = n
             /\ GroundsAt(raw, e.imported_module, e.imported_name, d, fuel - 1)

ReexportOf(e, d) ==
    GroundsAt(raw_namespaces, e.imported_module, e.imported_name, d,
              Cardinality(raw_namespaces.reexports))

HoldsSymbol(path, name, source) ==
    \E n \in NamespacesNamed(QualifiedName(path)) :
        \E x \in Range(namespaces[n].symbols) :
            x.name = name /\ x.source_code = source

HoldsName(path, name) ==
    \E n \in NamespacesNamed(QualifiedName(path)) :
        \E x \in Range(namespaces[n].symbols) : x.name = name

PublicApiBuilt == entry = "generate_documentation" /\ ConstructReturned

\* C1: a public item re-exported under its own name, directly or through a
\* chain of re-exports that ends at its declaration, is in the namespace of the
\* declaring module and in the namespace of every re-exporting module, with
\* the same name and source text; no declared item leaves its own namespace.
C1_ReexportFanOut ==
    PublicApiBuilt =>
        /\ \A d \in raw_namespaces.decls :
              HoldsSymbol(d.module, d.name, d.source_code)
        /\ \A d \in raw_namespaces.decls, e \in raw_namespaces.reexports :
              (e.local_name = d.name /\ ReexportOf(e, d)) =>
                  /\ HoldsSymbol(e.module, d.name, d.source_code)
                  /\ HoldsSymbol(d.module, d.name, d.source_code)

\* a::b declares f, a re-exports a::b::f, the root re-exports a::f
C1_Witness ==
    /\ PublicApiBuilt
    /\ pc = "done"
    /\ result.ok
    /\ raw_namespaces.decls =
          { [module |-> "a::b", name |-> "f", source_code |-> DeclSource("a::b", "f")] }
    /\ raw_namespaces.reexports =
          { [module |-> "a", imported_module |-> "a::b",
             imported_name |-> "f", local_name |-> "f"],
            [module |-> "", imported_module |-> "a",
             imported_name |-> "f", local_name |-> "f"] }
    /\ Len(namespaces) = 3

\* C2: when a chain of re-exports comes back on itself without meeting a
\* declaration, resolution stops after at most as many hops as there are
\* re-exports and the run ends with a resolution failure: no namespace is
\* built for the cyclic name and no artifact is returned.
C2_CycleIsAFailure ==
    (entry = "generate_documentation" /\ "resolve_symbols" \in Range(stages)) =>
        /\ resolve_hops <= Cardinality(raw_namespaces.reexports)
        /\ HasCycle(raw_namespaces) =>
              /\ pc = "done"
              /\ result = [ok |-> FALSE, error |-> "UnresolvedReExportCycle"]
              /\ namespace_map = <<>>
              /\ namespaces = <<>>

\* a and the root re-export f from each other, next to a real declaration
C2_Witness ==
    /\ entry = "generate_documentation"
    /\ pc = "done"
    /\ result = [ok |-> FALSE, error |-> "UnresolvedReExportCycle"]
    /\ resolve_hops = 2
    /\ raw_namespaces.decls # {}
    /\ \E e1, e2 \in raw_namespaces.reexports :
          /\ e1.module = e2.imported_module /\ e1.local_name = e2.imported_name
          /\ e2.module = e1.imported_module /\ e2.local_name = e1.imported_name

NoKey(raw, m, n) ==
    /\ \A d \in raw.decls : ~(d.module = m /\ d.name = n)
    /\ \A e \in raw.reexports : ~(e.module = m /\ e.local_name = n)

\* C6: an item re-exported under a new local name is in the re-exporting
\* module's namespace under the new name with the item's source text, stays
\* in its own namespace under its own name, and does not bring its own name
\* into the re-exporting namespace.
C6_RenameOnReexport ==
    PublicApiBuilt =>
        \A d \in raw_namespaces.decls, e \in raw_namespaces.reexports :
            (e.local_name # d.name /\ ReexportOf(e, d)) =>
                /\ HoldsSymbol(e.module, e.local_name, d.source_code)
                /\ HoldsSymbol(d.module, d.name, d.source_code)
                /\ NoKey(raw_namespaces, e.module, d.name)
                      => ~HoldsName(e.module, d.name)

\* a declares f, the root has pub use a::f as g, a::b has pub use crate::g as f
C6_Witness ==
    /\ PublicApiBuilt
    /\ pc = "done"
    /\ result.ok
    /\ raw_namespaces.decls =
          { [module |-> "a", name |-> "f", source_code |-> DeclSource("a", "f")] }
    /\ raw_namespaces.reexports =
          { [module |-> "", imported_module |-> "a",
             imported_name |-> "f", local_name |-> "g"],
            [module |-> "a::b", imported_module |-> "",
             imported_name |-> "g", local_name |-> "f"] }
    /\ Len(namespaces) = 3

====
